---- MODULE Spec2Model ----
(***************************************************************************)
(* A model of the oliepriser scraper: the process loop of main.rs, the     *)
(* run of Scraper (scraper.rs) with its bounded fan-out over the provider  *)
(* catalog, and the price sanitizer.                                       *)
(*                                                                         *)
(* Texts are sequences of one-character strings.  A network call is one    *)
(* step: the request is sent when the caller reaches the await, and the    *)
(* response action runs the caller up to its next await.                   *)
(***************************************************************************)
EXTENDS Integers, Sequences, FiniteSets, TLC

\* ------------------------------------------------------------------ bounds
MaxProviders == 2
CapExtra == 1
MaxRuns == 2
MaxClock == 2
MaxLen == 3

\* buffer_unordered(10)
ConcurrencyLimit == 10

\* ------------------------------------------------- sanitize_price_string
Digits == <<"0", "1", "2", "3", "4", "5", "6", "7", "8", "9">>

IsDigit(c) == \E d \in 1..10 : Digits[d] = c

DigitVal(c) == (CHOOSE d \in 1..10 : Digits[d] = c) - 1

\* char::is_whitespace on the characters the texts are built from
IsWhitespace(c) == c \in {" ", "\t", "\n"}

Drop(s, n) == SubSeq(s, n + 1, Len(s))

StartsWith(s, pat) == Len(s) >= Len(pat) /\ SubSeq(s, 1, Len(pat)) = pat

\* str::replace: every non-overlapping match of pat, left to right
RECURSIVE Replace(_, _, _)
Replace(s, pat, to) ==
    IF s = <<>> THEN <<>>
    ELSE IF StartsWith(s, pat) THEN to \o Replace(Drop(s, Len(pat)), pat, to)
    ELSE <<Head(s)>> \o Replace(Tail(s), pat, to)

\* str::replace with the closure pattern |c| c.is_whitespace()
RECURSIVE RemoveWhitespace(_)
RemoveWhitespace(s) ==
    IF s = <<>> THEN <<>>
    ELSE IF IsWhitespace(Head(s)) THEN RemoveWhitespace(Tail(s))
    ELSE <<Head(s)>> \o RemoveWhitespace(Tail(s))

\* the five rewrites with ',' turned into '.' before every '.' is removed
SanitizedCommaFirst(price_string) ==
    RemoveWhitespace(
        Replace(
            Replace(
                Replace(
                    Replace(price_string, <<"k", "r", ".">>, <<>>),
                    <<",", "-">>, <<>>),
                <<",">>, <<".">>),
            <<".">>, <<>>))

\* the five rewrites of sanitize_price_string, in the order of the source
Sanitized(price_string) ==
    RemoveWhitespace(
        Replace(
            Replace(
                Replace(
                    Replace(price_string, <<"k", "r", ".">>, <<>>),
                    <<",", "-">>, <<>>),
                <<".">>, <<>>),
            <<",">>, <<".">>))

RECURSIVE DigitsValue(_)
DigitsValue(s) ==
    IF s = <<>> THEN 0 ELSE DigitsValue(SubSeq(s, 1, Len(s) - 1)) * 10 + DigitVal(s[Len(s)])

\* a decimal m / 10^e with no trailing zero in the fraction, so that equal
\* numbers are equal values
RECURSIVE Decimal(_, _)
Decimal(m, e) ==
    IF e > 0 /\ m % 10 = 0 THEN Decimal(m \div 10, e - 1)
    ELSE [ok |-> TRUE, m |-> m, e |-> e]

ParseError == [ok |-> FALSE, m |-> 0, e |-> 0]

\* str::parse::<f64> on texts over digits, '.', '+', '-' and letters that
\* spell no float literal: an optional sign, then digits with at most one
\* '.', at least one digit in all.  The value is kept as an exact decimal.
ParseF64(s) ==
    LET signed == s # <<>> /\ Head(s) \in {"+", "-"}
        body == IF signed THEN Tail(s) ELSE s
        dots == {i \in 1..Len(body) : body[i] = "."}
        digs == {i \in 1..Len(body) : IsDigit(body[i])}
        wellFormed ==
            /\ dots \cup digs = 1..Len(body)
            /\ Cardinality(dots) <= 1
            /\ digs # {}
        point == IF dots = {} THEN Len(body) + 1 ELSE CHOOSE i \in dots : TRUE
        whole == SubSeq(body, 1, point - 1)
        frac == SubSeq(body, point + 1, Len(body))
        mag == DigitsValue(whole \o frac)
    IN  IF ~wellFormed THEN ParseError
        ELSE Decimal(IF signed /\ Head(s) = "-" THEN 0 - mag ELSE mag, Len(frac))

\* the value scaled to hundredths (kroner taken for oere)
sanitize_in_oere(text) ==
    LET parsed == ParseF64(Sanitized(text))
    IN  IF parsed.ok THEN Decimal(parsed.m * 100, parsed.e) ELSE parsed

sanitize_price_string(text) == ParseF64(Sanitized(text))

\* extract_price with `price >= 0.0` as the guard
PriceNotNegative(parsed) == parsed.ok /\ parsed.m >= 0

\* `Ok(price) if price > 0.0` of extract_price
PriceUsable(parsed) == parsed.ok /\ parsed.m > 0


\* extract_price: the loop over the selected elements, in document order,
\* up to the first usable price.  evaluated counts the candidates sanitized.
RECURSIVE ExtractFrom(_, _)
ExtractFrom(page, k) ==
    IF k > Len(page) THEN [found |-> FALSE, evaluated |-> Len(page), price |-> ParseError]
    ELSE IF PriceUsable(sanitize_price_string(page[k]))
         THEN [found |-> TRUE, evaluated |-> k, price |-> sanitize_price_string(page[k])]
         ELSE ExtractFrom(page, k + 1)

extract_price(page) == ExtractFrom(page, 1)

\* ------------------------------------------------------------ candidates
T_abc == <<"a", "b", "c">>
T_zero == <<"0", ",", "0", "0">>
T_50 == <<"5", "0", ",", "0", "0">>
T_99 == <<"9", "9", ",", "0", "0">>
T_199 == <<"k", "r", ".", " ", "1", "9", "9", ",", "-">>
T_1234 == <<"1", ".", "2", "3", "4", ",", "5", "6">>

\* the characters raw texts are drawn from, and the raw texts sanitized on
\* their own: every text of up to MaxLen characters and three longer ones
Alphabet == {"k", "r", ".", ",", "-", " ", "1", "0"}

RawTexts ==
    UNION {[1..n -> Alphabet] : n \in 0..MaxLen} \cup {T_199, T_1234, T_abc}

\* the candidate lists a provider page may yield under its selector
Pages ==
    { <<>>,
      <<T_abc, T_50, T_99>>,
      <<T_zero, T_abc>>,
      <<T_199>> }

\* extract_price on each page, computed once
Extracted == [pg \in Pages |-> extract_price(pg)]

\* ---------------------------------------------------------------- tokens
\* token strings are sequences of atoms; "\n" is a byte HeaderValue rejects
Token(type, access) == [access_token |-> access, token_type |-> type]

EmptyToken == Token(<<>>, <<>>)

Tokens ==
    { Token(<<"Bearer">>, <<"t1">>),
      Token(<<"Bearer">>, <<"t2">>),
      EmptyToken,
      Token(<<"Bearer">>, <<"\n">>) }

\* format!("{} {}", token_type, access_token)
AuthValue(token) == token.token_type \o <<" ">> \o token.access_token

\* HeaderValue::from_str
HeaderValid(value) == \A i \in 1..Len(value) : value[i] # "\n"

\* Client::new(): no default headers
NoHeader == <<>>

\* ----------------------------------------------------------------- state
VARIABLES
    world,       \* the name of the environment of this execution
    pc,          \* where main and Scraper::run stand
    clock,       \* the latest reading of chrono::Utc::now()
    run_start, run_end, token, client, providers,   \* fields of Scraper
    pipe,        \* the futures of handle_scraping, one per catalog entry
    results,     \* the Vec collected from buffer_unordered, completion order
    runs,        \* runs started
    login,       \* the response the login of this run got
    catalog,     \* the response the catalog fetch of this run got
    runResp,     \* the response the run report of this run got
    runResult,   \* what Scraper::run returned
    panicAt,     \* the unwrap that panicked
    runPosts,    \* bodies of the POST /scraping_runs requests sent
    sent,        \* requests sent in this run, with their Authorization
    sanitizing   \* a call of sanitize_price_string: its argument and Result

vars == <<world, pc, clock, run_start, run_end, token, client, providers, pipe,
          results, runs, login, catalog, runResp, runResult, panicAt, runPosts,
          sent, sanitizing>>

NoTime == [some |-> FALSE, t |-> 0]
Some(t) == [some |-> TRUE, t |-> t]

OkResult == [ok |-> TRUE, kind |-> "none", id |-> 0]
ErrResult(kind, id) == [ok |-> FALSE, kind |-> kind, id |-> id]

NotReturned == [state |-> "none", res |-> OkResult]
Running == [state |-> "running", res |-> OkResult]
Returned(res) == [state |-> "returned", res |-> res]

\* a response as the caller meets it: the transport failed, or a status
\* (success or not) came with a body that parses as expected or does not
NoResponse == [got |-> FALSE, transport |-> FALSE, success |-> FALSE, parses |-> FALSE]
Response(r) ==
    [got |-> TRUE, transport |-> r.transport, success |-> r.success, parses |-> r.parses]

\* sanitize_price_string about to be called on text, and once it returned res
Called(text) == [price_string |-> text, returned |-> FALSE, res |-> ParseError]

ReturnedTo(call, res) == [call EXCEPT !.returned = TRUE, !.res = res]

Queued ==
    [pc |-> "queued", cfg |-> "none", page |-> <<>>, pageStatus |-> "none", evaluated |-> 0,
     posts |-> <<>>, priceResp |-> "none", result |-> OkResult]

\* ----------------------------------------------------------- environment
\* the environments explored, by name: the catalog sizes the API may list,
\* the tokens it may issue, the providers whose resolve or page request may
\* fail or whose record may be misconfigured (flaky), the providers whose
\* page holds candidates (priced; the page of any other matches nothing),
\* the candidate lists and statuses such a page comes with, the answers to
\* a price POST, how many runs and clock values are followed, and the
\* providers whose resolve request never gets a response (hung)
Worlds ==
    [Spec |->
        [sizes |-> 0..MaxProviders,
         tokens |-> {Token(<<"Bearer">>, <<"t1">>)},
         flaky |-> 1..MaxProviders, priced |-> 1..MaxProviders,
         pages |-> Pages, statuses |-> {TRUE},
         priceResps |-> {"transport", "status", "body", "ok"},
         runs |-> MaxRuns, ticks |-> MaxClock, hung |-> {}],
     Cap |->
        [sizes |-> {ConcurrencyLimit + CapExtra},
         tokens |-> {Token(<<"Bearer">>, <<"t1">>)},
         flaky |-> {}, priced |-> {1},
         pages |-> {<<T_abc, T_50, T_99>>}, statuses |-> {TRUE},
         priceResps |-> {"ok"},
         runs |-> 1, ticks |-> 0, hung |-> {}],
     Auth |->
        [sizes |-> {0, 1},
         tokens |-> Tokens,
         flaky |-> {}, priced |-> {1},
         pages |-> {<<T_199>>}, statuses |-> {TRUE},
         priceResps |-> {"ok"},
         runs |-> MaxRuns, ticks |-> 0, hung |-> {}],
     Status |->
        [sizes |-> 0..MaxProviders,
         tokens |-> {Token(<<"Bearer">>, <<"t1">>)},
         flaky |-> {}, priced |-> 1..MaxProviders,
         pages |-> Pages, statuses |-> BOOLEAN,
         priceResps |-> {"ok"},
         runs |-> 1, ticks |-> 0, hung |-> {}],
     Hang |->
        [sizes |-> 1..(MaxProviders + 1),
         tokens |-> {Token(<<"Bearer">>, <<"t1">>)},
         flaky |-> 1..MaxProviders, priced |-> {1},
         pages |-> {<<T_199>>}, statuses |-> {TRUE},
         priceResps |-> {"ok"},
         runs |-> 1, ticks |-> 0, hung |-> {MaxProviders + 1}]]

W == Worlds[world]

\* chrono::Utc::now(): a reading no earlier than the one before
Now(last) == {t \in last..(last + 1) : t <= W.ticks}

LoginResponses ==
    {[transport |-> TRUE, success |-> FALSE, parses |-> FALSE, token |-> EmptyToken]}
    \cup {[transport |-> FALSE, success |-> ok, parses |-> FALSE, token |-> EmptyToken] :
            ok \in BOOLEAN}
    \cup {[transport |-> FALSE, success |-> ok, parses |-> TRUE, token |-> tk] :
            ok \in BOOLEAN, tk \in W.tokens}

CatalogResponses ==
    {[transport |-> TRUE, success |-> FALSE, parses |-> FALSE, n |-> 0]}
    \cup {[transport |-> FALSE, success |-> ok, parses |-> FALSE, n |-> 0] : ok \in BOOLEAN}
    \cup {[transport |-> FALSE, success |-> ok, parses |-> TRUE, n |-> n] :
            ok \in BOOLEAN, n \in W.sizes}

ResolveResponses(id) ==
    {[transport |-> FALSE, parses |-> TRUE, sel_ok |-> TRUE, url_ok |-> TRUE]}
    \cup IF id \in W.flaky
         THEN {[transport |-> TRUE, parses |-> FALSE, sel_ok |-> FALSE, url_ok |-> FALSE],
               [transport |-> FALSE, parses |-> FALSE, sel_ok |-> FALSE, url_ok |-> FALSE],
               [transport |-> FALSE, parses |-> TRUE, sel_ok |-> FALSE, url_ok |-> TRUE],
               [transport |-> FALSE, parses |-> TRUE, sel_ok |-> TRUE, url_ok |-> FALSE]}
         ELSE {}

PageResponses(id) ==
    (IF id \in W.flaky
     THEN {[transport |-> TRUE, success |-> FALSE, page |-> <<>>]}
     ELSE {})
    \cup (IF id \in W.priced
          THEN {[transport |-> FALSE, success |-> ok, page |-> pg] :
                  ok \in W.statuses, pg \in W.pages}
          ELSE {[transport |-> FALSE, success |-> TRUE, page |-> <<>>]})

\* what the POST of a price may come back with
PriceResponses == W.priceResps

\* what the POST of the run record may come back with
RunResponses == {"transport", "status", "ok"}


\* ------------------------------------------------------------------ Init
Start(w) ==
    /\ world = w
    /\ pc = "Idle"
    /\ clock = 0
    /\ run_start = 0
    /\ run_end = NoTime
    /\ token = EmptyToken
    /\ client = NoHeader
    /\ providers = <<>>
    /\ pipe = <<>>
    /\ results = <<>>
    /\ runs = 0
    /\ login = NoResponse
    /\ catalog = NoResponse
    /\ runResp = "none"
    /\ runResult = NotReturned
    /\ panicAt = "none"
    /\ runPosts = <<>>
    /\ sent = {}

\* no call of sanitize_price_string on its own
NoText == sanitizing = Called(<<>>)

Init == Start("Spec") /\ NoText

InitCap == Start("Cap") /\ NoText

InitAuth == Start("Auth") /\ NoText

InitStatus == Start("Status") /\ NoText

InitHang == Start("Hang") /\ NoText

\* sanitize_price_string on its own, on any raw text
InitNorm == Start("Spec") /\ sanitizing \in {Called(text) : text \in RawTexts}

\* --------------------------------------------------------- handle_scraping
InFlightSet(p) == {i \in DOMAIN p : p[i].pc \in {"resolving", "fetching", "reporting"}}

InFlight(p) == Cardinality(InFlightSet(p))

\* the fill loop with `<=` for `<`: one future too many
HasFreeSlotOffByOne(inflight) == inflight <= ConcurrencyLimit

\* BufferUnordered pulls the next future while in_progress.len() < max
HasFreeSlot(inflight) == inflight < ConcurrencyLimit

Min(S) == CHOOSE x \in S : \A y \in S : x <= y

\* the fill loop of BufferUnordered::poll_next: futures are taken from the
\* iterator in catalog order; the first poll of a future sends its resolve
RECURSIVE Fill(_)
Fill(p) ==
    LET queued == {i \in DOMAIN p : p[i].pc = "queued"}
    IN  IF queued # {} /\ HasFreeSlot(InFlight(p))
        THEN Fill([p EXCEPT ![Min(queued)].pc = "resolving"])
        ELSE p

\* collect() resolves when the iterator is exhausted and no future is left
AllCollected(p) == \A i \in DOMAIN p : p[i].pc = "done"

\* `for result in results { result?; }`
FirstError(rs) ==
    LET errs == {k \in 1..Len(rs) : ~rs[k].ok}
    IN  IF errs = {} THEN OkResult ELSE rs[Min(errs)]

\* run_end filled only while it is None (get_or_insert)
RunEndKeptOnceSet(old, now) == IF old.some THEN old ELSE Some(now)

\* `self.run_end = Some(chrono::Utc::now())`
RunEndAfterScraping(old, now) == Some(now)

\* `self.run_end.unwrap_or(now)` of post_run
EndTime(end, now) == IF end.some THEN end.t ELSE now

\* main: `scraper.run().await.unwrap()` on an Err panics
ReturnErr(err) ==
    /\ runResult' = Returned(err)
    /\ pc' = "Crashed"
    /\ panicAt' = "main.rs:40"

\* an unwrap inside run panics: run never returns
Panic(at) ==
    /\ pc' = "Crashed"
    /\ panicAt' = at
    /\ runResult' = runResult

\* One poll of the collect() future after the pipelines moved to p2 with
\* results r2: refill the free slots; when everything is collected, run
\* goes on to the error check, takes run_end and posts the run record
\* (post_run reads the clock once more) without suspending.
Polled(p2, r2, s2) ==
    LET p3 == Fill(p2)
        s3 == s2 \cup (IF p3 # p2 THEN {<<"resolve", client>>} ELSE {})
    IN  /\ pipe' = p3
        /\ results' = r2
        /\ IF ~AllCollected(p3)
           THEN /\ pc' = "Scraping"
                /\ sent' = s3
                /\ UNCHANGED <<clock, run_end, runPosts, runResult, panicAt>>
           ELSE IF ~FirstError(r2).ok
           THEN /\ ReturnErr(FirstError(r2))
                /\ sent' = s3
                /\ UNCHANGED <<clock, run_end, runPosts>>
           ELSE /\ \E t \in Now(clock) : \E now \in Now(t) :
                    /\ run_end' = RunEndAfterScraping(run_end, t)
                    /\ runPosts' = Append(runPosts,
                            [start_time |-> run_start, end_time |-> EndTime(run_end', now)])
                    /\ clock' = now
                /\ sent' = s3 \cup {<<"run", client>>}
                /\ pc' = "ReportingRun"
                /\ UNCHANGED <<runResult, panicAt>>

\* a pipeline future returned res
Completed(i, p2, res) ==
    Polled([p2 EXCEPT ![i].pc = "done", ![i].result = res], Append(results, res), sent)

\* ------------------------------------------------------------------- run
\* main calls run: run_start is taken and the login is posted
StartRun ==
    /\ pc = "Idle"
    /\ runs < W.runs
    /\ runs' = runs + 1
    /\ \E now \in Now(clock) :
        /\ clock' = now
        /\ run_start' = now
    /\ pc' = "Authenticating"
    /\ pipe' = <<>>
    /\ results' = <<>>
    /\ login' = NoResponse
    /\ catalog' = NoResponse
    /\ runResp' = "none"
    /\ runResult' = Running
    /\ sent' = {<<"login", client>>}
    /\ UNCHANGED <<sanitizing, world, run_end, token, client, providers, panicAt, runPosts>>

\* get_token: Err on a transport failure or a body that is no Token; the
\* status of the response is not looked at
get_token(r) == IF r.transport \/ ~r.parses THEN "Err" ELSE "Ok"

\* the client built on the first call only and kept afterwards
configure_client_once(old, tk) == IF old = NoHeader THEN AuthValue(tk) ELSE old

\* configure_client: self.client becomes a new Client whose default headers
\* hold the Authorization made of the token just stored
configure_client(old, tk) == AuthValue(tk)

\* the login response arrives: get_token()?, configure_client().unwrap(),
\* then the catalog GET is sent
LoginResponse ==
    /\ pc = "Authenticating"
    /\ \E r \in LoginResponses :
        /\ login' = Response(r)
        /\ IF get_token(r) = "Err"
           THEN /\ ReturnErr(ErrResult("AuthErr", 0))
                /\ UNCHANGED <<token, client, sent>>
           ELSE /\ token' = r.token
                /\ IF HeaderValid(AuthValue(r.token))
                   THEN /\ client' = configure_client(client, r.token)
                        /\ sent' = sent \cup {<<"catalog", client'>>}
                        /\ pc' = "FetchingCatalog"
                        /\ UNCHANGED <<runResult, panicAt>>
                   ELSE /\ Panic("scraper.rs:345")
                        /\ UNCHANGED <<client, sent>>
    /\ UNCHANGED <<sanitizing, world, clock, run_start, run_end, providers, pipe, results, runs,
                   catalog, runResp, runPosts>>

\* fetch_providers: Err on a transport failure, a non-success status or a
\* body that is no list of {id}
fetch_providers(r) == IF r.transport \/ ~r.success \/ ~r.parses THEN "Err" ELSE "Ok"

\* the catalog response arrives: fetch_providers().unwrap(), then
\* handle_scraping builds the futures and polls the buffered stream
CatalogResponse ==
    /\ pc = "FetchingCatalog"
    /\ \E r \in CatalogResponses :
        /\ catalog' = Response(r)
        /\ IF fetch_providers(r) = "Err"
           THEN /\ Panic("scraper.rs:346")
                /\ UNCHANGED <<clock, providers, pipe, results, run_end, runPosts, sent>>
           ELSE /\ providers' = [i \in 1..r.n |-> i]
                /\ Polled([i \in 1..r.n |-> Queued], <<>>, sent)
    /\ UNCHANGED <<sanitizing, world, run_start, token, client, runs, login, runResp>>

\* get_provider: Err on a transport failure or a body that is no Provider
get_provider(r) == IF r.transport \/ ~r.parses THEN "Err" ELSE "Ok"

\* the resolve response of pipeline i arrives (never, for a provider whose
\* request hangs): get_provider()?, the two unwraps on the selector and the
\* URL, then the page GET is sent
ResolveResponse(i) ==
    /\ pc = "Scraping"
    /\ pipe[i].pc = "resolving"
    /\ providers[i] \notin W.hung
    /\ \E r \in ResolveResponses(providers[i]) :
        IF get_provider(r) = "Err"
        THEN Completed(i, pipe, ErrResult("ResolveErr", providers[i]))
        ELSE IF ~r.sel_ok \/ ~r.url_ok
        THEN /\ Panic(IF ~r.sel_ok THEN "scraper.rs:213" ELSE "scraper.rs:214")
             /\ pipe' = [pipe EXCEPT ![i].pc = "panicked",
                                     ![i].cfg = IF ~r.sel_ok THEN "bad_selector"
                                                ELSE "bad_url"]
             /\ UNCHANGED <<clock, results, run_end, runPosts, sent>>
        ELSE Polled([pipe EXCEPT ![i].pc = "fetching", ![i].cfg = "valid"], results,
                    sent \cup {<<"page", client>>})
    /\ UNCHANGED <<sanitizing, world, run_start, token, client, providers, runs, login, catalog,
                   runResp>>

\* `client.get(provider_url).send().await?` and `response.text().await?`:
\* Err on a transport failure only
fetch_page(r) == IF r.transport THEN "Err" ELSE "Ok"

\* a page without a usable price handed on as an error of the pipeline
NoPriceFoundIsError(id) == ErrResult("NoPriceErr", id)

\* extract_price falls out of its loop without a usable price and returns
\* nothing; the async block ends with Ok(())
NoPriceFound(id) == OkResult

\* the page response of pipeline i arrives: the body is parsed, the selector
\* evaluated and extract_price runs up to the POST of the first usable price
FetchResponse(i) ==
    /\ pc = "Scraping"
    /\ pipe[i].pc = "fetching"
    /\ \E r \in PageResponses(providers[i]) :
        IF fetch_page(r) = "Err"
        THEN Completed(i, pipe, ErrResult("FetchErr", providers[i]))
        ELSE LET x == Extracted[r.page]
                 seen == [pipe EXCEPT ![i].page = r.page,
                                      ![i].pageStatus =
                                          IF r.success THEN "success" ELSE "failure",
                                      ![i].evaluated = x.evaluated]
             IN  IF x.found
                 THEN Polled([seen EXCEPT ![i].pc = "reporting",
                                          ![i].posts = Append(@, x.price)],
                             results, sent \cup {<<"price", client>>})
                 ELSE Completed(i, seen, NoPriceFound(providers[i]))
    /\ UNCHANGED <<sanitizing, world, run_start, token, client, providers, runs, login, catalog,
                   runResp>>

\* add_price_for_provider: Err when the send fails or the body of a success
\* response cannot be read; a non-success status is printed, Ok
add_price_for_provider(r) == IF r \in {"transport", "body"} THEN "Err" ELSE "Ok"

\* the Err of add_price_for_provider handed on with `?`
AfterPricePropagated(added, id) ==
    IF added = "Err" THEN ErrResult("PriceErr", id) ELSE OkResult

\* extract_price prints the Err of add_price_for_provider and returns; the
\* async block ends with Ok(())
AfterPrice(added, id) == OkResult

\* the response to the price POST of pipeline i arrives
PriceResponse(i) ==
    /\ pc = "Scraping"
    /\ pipe[i].pc = "reporting"
    /\ \E r \in PriceResponses :
        Completed(i, [pipe EXCEPT ![i].priceResp = r],
                  AfterPrice(add_price_for_provider(r), providers[i]))
    /\ UNCHANGED <<sanitizing, world, run_start, token, client, providers, runs, login, catalog,
                   runResp>>

\* post_run: `send().await?` is an Err on a transport failure only
post_run(r) == IF r = "transport" THEN "Err" ELSE "Ok"

\* the response to the run report arrives: run returns, and main either
\* goes to sleep or panics on the Err
RunReportResponse ==
    /\ pc = "ReportingRun"
    /\ \E r \in RunResponses :
        /\ runResp' = r
        /\ IF post_run(r) = "Err"
           THEN ReturnErr(ErrResult("RunReportErr", 0))
           ELSE /\ runResult' = Returned(OkResult)
                /\ pc' = "Sleeping"
                /\ UNCHANGED panicAt
    /\ UNCHANGED <<sanitizing, world, clock, run_start, run_end, token, client, providers, pipe,
                   results, runs, login, catalog, runPosts, sent>>

\* time::sleep(60 s) is over: the loop of main comes round
Wake ==
    /\ pc = "Sleeping"
    /\ pc' = "Idle"
    /\ UNCHANGED <<sanitizing, world, clock, run_start, run_end, token, client, providers, pipe,
                   results, runs, login, catalog, runResp, runResult, panicAt, runPosts, sent>>

Next ==
    \/ StartRun
    \/ LoginResponse
    \/ CatalogResponse
    \/ \E i \in DOMAIN pipe : ResolveResponse(i)
    \/ \E i \in DOMAIN pipe : FetchResponse(i)
    \/ \E i \in DOMAIN pipe : PriceResponse(i)
    \/ RunReportResponse
    \/ Wake

\* the call of sanitize_price_string on price_string returns
Sanitize ==
    /\ ~sanitizing.returned
    /\ sanitizing' = ReturnedTo(sanitizing, sanitize_price_string(sanitizing.price_string))
    /\ UNCHANGED <<world, pc, clock, run_start, run_end, token, client,
                   providers, pipe, results, runs, login, catalog, runResp, runResult,
                   panicAt, runPosts, sent>>

NextNorm == Sanitize

Spec == Init /\ [][Next]_vars

SpecNorm == InitNorm /\ [][NextNorm]_vars

SpecCap == InitCap /\ [][Next]_vars

SpecAuth == InitAuth /\ [][Next]_vars

SpecStatus == InitStatus /\ [][Next]_vars

SpecHang == InitHang /\ [][Next]_vars


\* ================================================================ claims
Started(p) == {i \in DOMAIN p : p[i].pc # "queued"}

Finished(p) == {i \in DOMAIN p : p[i].pc \in {"done", "panicked"}}

\* the pipeline ended in a failure: an Err, or the panic of a bad selector/URL
PipelineFailed(q) == (q.pc = "done" /\ ~q.result.ok) \/ q.pc = "panicked"

\* the run report of the current run has been issued
ReportedThisRun == runs > 0 /\ Len(runPosts) = runs

\* run is over: it returned or it panicked
RunOver == pc \in {"Crashed", "Sleeping", "Idle"} /\ runs > 0

CandidateTexts == UNION {{pg[k] : k \in 1..Len(pg)} : pg \in Pages}

Normalized == [t \in CandidateTexts |-> sanitize_price_string(t)]

Positive(t) == Normalized[t].ok /\ Normalized[t].m > 0

\* C1: at every moment the pipelines started and not yet completed number at
\* most 10, whatever the catalog size; so a pipeline beyond the tenth is
\* started only once an earlier one has completed.
C1_AtMostTenInFlight ==
    Cardinality(Started(pipe)) - Cardinality(Finished(pipe)) <= ConcurrencyLimit

\* the last entry of a catalog longer than 10 has been started while ten
\* pipelines are in flight
C1_Witness ==
    /\ Len(pipe) > ConcurrencyLimit
    /\ pipe[Len(pipe)].pc # "queued"
    /\ InFlight(pipe) = ConcurrencyLimit

\* C2: once a pipeline's resolve or page fetch has failed and the run has
\* left the scraping phase, every other catalog entry's pipeline has been
\* dispatched and has run to completion, and each whose page holds a usable
\* price has issued its price report.
C2_Isolation ==
    \A i \in DOMAIN pipe :
        (pipe[i].pc = "done" /\ ~pipe[i].result.ok /\ pc # "Scraping")
        => \A j \in DOMAIN pipe \ {i} :
            /\ pipe[j].pc = "done"
            /\ (\E k \in 1..Len(pipe[j].page) : Positive(pipe[j].page[k]))
                    => pipe[j].posts # <<>>

\* C3: when a pipeline has failed and the run is over, run has returned the
\* first failure of the collected results, every pipeline has completed, and
\* no run report was issued in that run.
C3_FirstFailureReturned ==
    (RunOver /\ \E i \in DOMAIN pipe : PipelineFailed(pipe[i]))
    => /\ runResult = Returned(FirstError(results))
       /\ ~runResult.res.ok
       /\ \A j \in DOMAIN pipe : pipe[j].pc = "done"
       /\ ~ReportedThisRun

\* C4: whenever a run report is issued, no pipeline of the run is in flight
\* or waiting, its start_time is the run's run_start, its end_time was read
\* in that very step (after the last completion, no earlier than any reading
\* before it) and is the run_end set in that step, and start_time <= end_time.
C4_RunRecord ==
    [][runPosts' # runPosts =>
        LET post == runPosts'[Len(runPosts')]
        IN  /\ Len(runPosts') = Len(runPosts) + 1
            /\ AllCollected(pipe')
            /\ post.start_time = run_start
            /\ post.start_time <= post.end_time
            /\ clock <= post.end_time
            /\ post.end_time <= clock'
            /\ run_end' = Some(post.end_time)]_vars

\* the report of a second run, over a non-empty catalog, issued after the
\* clock moved on from the first run's end
C4_Witness ==
    /\ pc = "ReportingRun"
    /\ Len(runPosts) = 2
    /\ pipe # <<>>
    /\ runPosts[2].start_time > runPosts[1].end_time

\* C5: when the login failed in transport or was rejected (non-success
\* status), run has returned an error, no catalog fetch was issued, no
\* pipeline was dispatched and no run report was issued in that run.
C5_AuthFailureAbandons ==
    (login.got /\ (login.transport \/ ~login.success))
    => /\ runResult.state = "returned"
       /\ ~runResult.res.ok
       /\ \A m \in sent : m[1] # "catalog"
       /\ pipe = <<>>
       /\ ~ReportedThisRun

\* C6: when the catalog fetch failed (transport, non-success status, or a
\* body that is no list of {id}), run has returned an error value, no
\* pipeline was dispatched and no run report was issued in that run.
C6_CatalogFailureReturnsError ==
    (catalog.got /\ (catalog.transport \/ ~catalog.success \/ ~catalog.parses))
    => /\ runResult.state = "returned"
       /\ ~runResult.res.ok
       /\ pipe = <<>>
       /\ ~ReportedThisRun

PriceFailed(q) == q.priceResp \in {"transport", "status", "body"}

\* C8: a pipeline whose price report failed has completed with Ok after
\* exactly one POST of the price, and when every pipeline of the run has
\* completed without failure the run report has been issued.
C8_PriceReportBestEffort ==
    \A i \in DOMAIN pipe :
        PriceFailed(pipe[i])
        => /\ pipe[i].pc = "done"
           /\ pipe[i].result.ok
           /\ Len(pipe[i].posts) = 1
           /\ (\A j \in DOMAIN pipe : pipe[j].pc = "done" /\ pipe[j].result.ok)
                => ReportedThisRun

\* a price report failed in transport, a sibling completed, and the run
\* report is on its way
C8_Witness ==
    /\ pc = "ReportingRun"
    /\ Len(pipe) >= 2
    /\ \E i \in DOMAIN pipe : pipe[i].priceResp = "transport"

\* C9: when the run report failed, by transport or by a non-success
\* status, run has returned an error.
C9_RunReportFailureSurfaces ==
    runResp \in {"transport", "status"}
    => (runResult.state = "returned" /\ ~runResult.res.ok)

\* C10: a provider with an invalid selector fails its own pipeline only:
\* that pipeline completes with an error that is no fetch error, nothing
\* panics, and once the run has left the scraping phase every sibling has
\* completed.
C10_SelectorErrorContained ==
    \A i \in DOMAIN pipe :
        pipe[i].cfg = "bad_selector"
        => /\ pipe[i].pc = "done"
           /\ ~pipe[i].result.ok
           /\ pipe[i].result.kind # "FetchErr"
           /\ panicAt = "none"
           /\ pc # "Scraping" => \A j \in DOMAIN pipe : pipe[j].pc = "done"

\* C11: a pipeline whose page GET came back with a non-success status has
\* completed with an error, none of the candidates of the body was evaluated
\* and no price was posted for its provider in this run.
C11_PageStatusFails ==
    \A i \in DOMAIN pipe :
        pipe[i].pageStatus = "failure"
        => /\ pipe[i].pc = "done"
           /\ ~pipe[i].result.ok
           /\ pipe[i].evaluated = 0
           /\ pipe[i].posts = <<>>

\* the page of the pipeline arrived and none of its candidates (if any)
\* normalizes to a value > 0
NoUsablePrice(q) ==
    q.pageStatus # "none" /\ \A k \in 1..Len(q.page) : ~Positive(q.page[k])

C13_LoopSurvivesFailures ==
    /\ pc # "Crashed"
    /\ (runs > 0 /\ pc \in {"Idle", "Sleeping"})
        => (runResult.state = "returned" /\ InFlight(pipe) = 0)

\* the login of the current run is one run treats as successful: get_token
\* returned Ok
Accepted(l) == l.got /\ ~l.transport /\ l.parses

\* C14: up to the first login run treats as successful both fields of the
\* token are empty, and after a login run treats as successful (here: one
\* answered with a success status and a Token body) both are non-empty.
C14_TokenInvariant ==
    /\ (runs <= 1 /\ ~Accepted(login))
        => (token.access_token = <<>> /\ token.token_type = <<>>)
    /\ (Accepted(login) /\ login.success)
        => (token.access_token # <<>> /\ token.token_type # <<>>)

\* f64's to_string: the shortest decimal that reads back as the value, an
\* optional '-', no exponent, and no '.' when the value is a whole number
RECURSIVE DigitsOf(_)
DigitsOf(n) ==
    IF n < 10 THEN <<Digits[n + 1]>>
    ELSE DigitsOf(n \div 10) \o <<Digits[(n % 10) + 1]>>

RECURSIVE ZeroPad(_, _)
ZeroPad(s, n) == IF Len(s) >= n THEN s ELSE ZeroPad(<<"0">> \o s, n)

to_string(d) ==
    LET mag == IF d.m < 0 THEN 0 - d.m ELSE d.m
        ds == ZeroPad(DigitsOf(mag), d.e + 1)
        whole == SubSeq(ds, 1, Len(ds) - d.e)
        frac == SubSeq(ds, Len(ds) - d.e + 1, Len(ds))
    IN  (IF d.m < 0 THEN <<"-">> ELSE <<>>) \o whole
        \o (IF d.e > 0 THEN <<".">> \o frac ELSE <<>>)

\* C15 as stated: whenever sanitize_price_string succeeds on a raw text,
\* sanitizing the string of the number it returned yields that number again.
C15_RoundTrip ==
    (sanitizing.returned /\ sanitizing.res.ok)
    => sanitize_price_string(to_string(sanitizing.res)) = sanitizing.res

\* C15 as amended: whenever sanitize_price_string succeeds on a raw text with
\* a whole number, sanitizing the string of that number yields it again.
C15_RoundTripWhole ==
    (sanitizing.returned /\ sanitizing.res.ok /\ sanitizing.res.e = 0)
    => sanitize_price_string(to_string(sanitizing.res)) = sanitizing.res

\* "kr. 199,-" came back as 199, whose string is "199"
C15_Witness ==
    /\ sanitizing.returned
    /\ sanitizing.price_string = T_199
    /\ sanitizing.res = [ok |-> TRUE, m |-> 199, e |-> 0]
    /\ to_string(sanitizing.res) = <<"1", "9", "9">>

\* The reference transform, written step by step over positions: the two
\* substring removals, the removal of '.', ',' turned into '.', the removal
\* of whitespace, then the decimal parse.
RECURSIVE RefCut(_, _)
RefCut(s, pat) ==
    IF Len(s) < Len(pat) THEN s
    ELSE IF \A j \in 1..Len(pat) : s[j] = pat[j]
         THEN RefCut(SubSeq(s, Len(pat) + 1, Len(s)), pat)
         ELSE <<s[1]>> \o RefCut(SubSeq(s, 2, Len(s)), pat)

RefDelete(s, c) == SelectSeq(s, LAMBDA x : x # c)

RefMap(s, a, b) == [i \in 1..Len(s) |-> IF s[i] = a THEN b ELSE s[i]]

RefStrip(s) == SelectSeq(s, LAMBDA x : x \notin {" ", "\t", "\n"})

RefDigit(c) ==
    CASE c = "0" -> 0 [] c = "1" -> 1 [] c = "2" -> 2 [] c = "3" -> 3 [] c = "4" -> 4
      [] c = "5" -> 5 [] c = "6" -> 6 [] c = "7" -> 7 [] c = "8" -> 8 [] c = "9" -> 9

RefDigitChars == {"0", "1", "2", "3", "4", "5", "6", "7", "8", "9"}

RECURSIVE Pow10(_)
Pow10(n) == IF n = 0 THEN 1 ELSE 10 * Pow10(n - 1)

RECURSIVE RefValue(_, _)
RefValue(ds, i) ==
    IF i > Len(ds) THEN 0
    ELSE RefDigit(ds[i]) * Pow10(Len(ds) - i) + RefValue(ds, i + 1)

RefParse(s) ==
    LET signed == Len(s) >= 1 /\ s[1] \in {"-", "+"}
        u == IF signed THEN SubSeq(s, 2, Len(s)) ELSE s
        points == {i \in 1..Len(u) : u[i] = "."}
        numeric ==
            /\ \A i \in 1..Len(u) : u[i] \in RefDigitChars \cup {"."}
            /\ Cardinality(points) <= 1
            /\ \E i \in 1..Len(u) : u[i] \in RefDigitChars
        k == IF points = {} THEN 0 ELSE Len(u) - (CHOOSE i \in points : TRUE)
        val == RefValue(RefDelete(u, "."), 1)
        z == CHOOSE j \in 0..k :
                /\ val % Pow10(j) = 0
                /\ \A j2 \in (j + 1)..k : val % Pow10(j2) # 0
        mag == val \div Pow10(z)
    IN  IF ~numeric THEN ParseError
        ELSE [ok |-> TRUE,
              m |-> IF signed /\ s[1] = "-" THEN 0 - mag ELSE mag,
              e |-> k - z]

Reference(t) ==
    RefParse(RefStrip(RefMap(RefDelete(RefCut(RefCut(t, <<"k", "r", ".">>), <<",", "-">>),
                                       "."),
                             ",", ".")))

Issued(ks) == \E m \in sent : m[1] \in ks

\* C17: in every run the requests follow the phase order: the login is the
\* first request of the run; the catalog fetch is issued only after the login
\* of this run succeeded (it came back with a success status and a Token);
\* resolve, page and price requests are issued only after the catalog fetch
\* of this run succeeded; the run report is issued at most once per run, and
\* only when every pipeline has completed.
C17_PhaseOrder ==
    /\ (runs > 0 /\ pc # "Idle") => Issued({"login"})
    /\ pc = "Authenticating" => ~Issued({"catalog", "resolve", "page", "price", "run"})
    /\ Issued({"catalog"})
        => (login.got /\ ~login.transport /\ login.success /\ login.parses)
    /\ Issued({"resolve", "page", "price"})
        => (catalog.got /\ ~catalog.transport /\ catalog.success /\ catalog.parses)
    /\ Issued({"run"}) => (Issued({"catalog"}) /\ AllCollected(pipe))
    /\ Len(runPosts) <= runs

\* the catalog fetch of the current run returned the catalog
CatalogFetched == catalog.got /\ ~catalog.transport /\ catalog.success /\ catalog.parses

\* C18: a run that fetched its catalog holds one pipeline per catalog entry,
\* and once every network call has returned (no response is outstanding and
\* nothing more can happen) every pipeline has completed and run has
\* returned: no entry is left waiting behind the concurrency cap.
C18_NoStarvation ==
    CatalogFetched
    => /\ Len(pipe) = Len(providers)
       /\ ~ENABLED Next
            => /\ \A i \in DOMAIN pipe : pipe[i].pc = "done"
               /\ runResult.state = "returned"

\* the pipelines whose resolve request hangs
Hung(p) == {i \in DOMAIN p : p[i].pc = "resolving" /\ providers[i] \in W.hung}

\* C19: while a pipeline hangs it holds a slot (the pipelines in flight,
\* the hung ones among them, number at most 10), no run report is issued and
\* run does not return; with 10 pipelines hung no other pipeline is in
\* flight; with fewer than 10 hung, once every other network call has
\* returned (nothing more can happen) every other pipeline has completed.
C19_HungHoldsOneSlot ==
    Hung(pipe) # {}
    => /\ InFlight(pipe) <= ConcurrencyLimit
       /\ pc # "ReportingRun"
       /\ runResult.state # "returned"
       /\ ~ReportedThisRun
       /\ Cardinality(Hung(pipe)) >= ConcurrencyLimit => InFlightSet(pipe) = Hung(pipe)
       /\ (Cardinality(Hung(pipe)) < ConcurrencyLimit /\ ~ENABLED Next)
            => \A i \in DOMAIN pipe \ Hung(pipe) : pipe[i].pc = "done"

\* C20: every request of the current run other than its login (catalog
\* fetch, provider resolve, page GET, price report, run report) was issued
\* after a login this run accepted and carries as Authorization the
\* token_type, one space and the access_token of the token of this run.
C20_AuthorizationOfCurrentRun ==
    \A m \in sent :
        m[1] # "login"
        => /\ Accepted(login)
           /\ m[2] = token.token_type \o <<" ">> \o token.access_token

\* a second run authenticated with token t2 after a first run with t1 (the
\* login of the second run still went out with the first run's header):
\* all five kinds of request carry "Bearer t2"
C20_Witness ==
    /\ runs = 2
    /\ token = Token(<<"Bearer">>, <<"t2">>)
    /\ <<"login", <<"Bearer", " ", "t1">>>> \in sent
    /\ \A k \in {"catalog", "resolve", "page", "price", "run"} :
            <<k, <<"Bearer", " ", "t2">>>> \in sent

====
